---------------------------- MODULE Spec2Model ----------------------------
(***************************************************************************)
(* BehaviorLeRobotDataset (omnigibson/learning/datas/lerobot_dataset.py):  *)
(* the episode selection, the keyframe chunk planner, the delta-window     *)
(* resolver and the chunk streaming cursor of __getitem__ with its pool of *)
(* observation loaders, run by the main process and by the data-loading    *)
(* worker processes that each hold a copy of the dataset object; and the   *)
(* fetch by index when chunk streaming is off.                             *)
(***************************************************************************)
EXTENDS Integers, Sequences, FiniteSets, TLC

(***************************************************************************)
(* Bounds of the model.                                                    *)
(***************************************************************************)
MaxEpisodes == 2
MaxLen == 3
MaxChunkSize == 2
MaxSeed == 3
NumWorkers == 1
CallCap == 3
WorkerMaxLen == 2

VARIABLES
    chunk_streaming_using_keyframe,   \* self._chunk_streaming_using_keyframe
    episodes,          \* self.episodes: the ids of the selected episodes, ascending
    episode_lengths,   \* lengths of self.episodes, in selection order
    chunk_size,        \* the planner's chunk_size argument
    shuffle,           \* constructor argument shuffle
    seed,              \* self.seed
    video_keys,        \* self.meta.video_keys
    delta_indices,     \* self.delta_indices (NoDelta when None)
    ds,                \* per process: the mutable fields of the dataset object
    proc,              \* per process: "absent", "running" or "crashed"
    calls,             \* per process: completed __getitem__ calls (saturates at CallCap)
    last,              \* per process: what the last __getitem__ call did (raised: where
                       \* it raised, "none" when it returned)
    recent,            \* per process: rows returned by the latest calls (one cycle at most
                       \* in chunk streaming mode, two calls otherwise)
    born,              \* per process: what the process's copy held when it started
    ctor               \* the __init__ call: its arguments, what it met on disk and in the
                       \* repository, what it did and how it ended

vars == <<chunk_streaming_using_keyframe, episodes, episode_lengths, chunk_size, shuffle,
          seed, video_keys, delta_indices, ds, proc, calls, last, recent, born, ctor>>

config == <<chunk_streaming_using_keyframe, episodes, episode_lengths, chunk_size, shuffle,
            seed, video_keys, delta_indices, ctor>>

(***************************************************************************)
(* Values.                                                                 *)
(***************************************************************************)
None == -1

NoDelta == [key \in {} |-> << >>]

EmptyDict == [key \in {} |-> None]

MainProc == 0

Procs == 0..NumWorkers

VideoKeyUniverse == {"observation.images.rgb.head", "observation.images.seg_instance_id.head"}

DeltaChoices ==
    { NoDelta,
      [action |-> <<-2, 0, 3>>],
      [action |-> <<0, 1>>, observation |-> <<-1, 0>>] }

Min(a, b) == IF a <= b THEN a ELSE b

Max(a, b) == IF a >= b THEN a ELSE b

\* list(range(lo, hi, step)) for step >= 1
Range(lo, hi, step) ==
    IF hi <= lo THEN << >>
    ELSE [i \in 1..((hi - lo + step - 1) \div step) |-> lo + (i - 1) * step]

\* s[1:]
PyTail(s) == IF s = << >> THEN << >> ELSE Tail(s)

\* list(zip(a, b)): as long as the shorter of the two
Zip(a, b) == [i \in 1..Min(Len(a), Len(b)) |-> <<a[i], b[i]>>]

(***************************************************************************)
(* _get_keyframe_chunk_indices: chunks are (start, end, local_start).      *)
(***************************************************************************)
\* the chunk ends taken as start + chunk_size, without the cap at the episode length
EpisodeChunks_uncapped(L, offset, cs) ==
    LET local_starts == Range(0, L, cs)
    IN  [i \in 1..Len(local_starts) |->
            <<offset + local_starts[i], offset + local_starts[i] + cs, local_starts[i]>>]

\* the local starts taken up to and including the episode length
EpisodeChunks_through_end(L, offset, cs) ==
    LET local_starts == Range(0, L + 1, cs)
        local_ends == PyTail(local_starts) \o <<L>>
        pairs == Zip(local_starts, local_ends)
    IN  [i \in 1..Len(pairs) |-> <<offset + pairs[i][1], offset + pairs[i][2], pairs[i][1]>>]

EpisodeChunks(L, offset, cs) ==
    LET local_starts == Range(0, L, cs)
        local_ends == PyTail(local_starts) \o <<L>>
        pairs == Zip(local_starts, local_ends)
    IN  [i \in 1..Len(pairs) |-> <<offset + pairs[i][1], offset + pairs[i][2], pairs[i][1]>>]

RECURSIVE ChunksFrom(_, _, _, _)
ChunksFrom(lengths, k, offset, cs) ==
    IF k > Len(lengths) THEN << >>
    ELSE EpisodeChunks(lengths[k], offset, cs)
            \o ChunksFrom(lengths, k + 1, offset + lengths[k], cs)

get_keyframe_chunk_indices(lengths, cs) == ChunksFrom(lengths, 1, 0, cs)

(***************************************************************************)
(* get_episode_data_index: the global row range of the episode at          *)
(* position k of the selection, and the episode a global row belongs to.   *)
(***************************************************************************)
RECURSIVE SumTo(_, _)
SumTo(lengths, k) == IF k = 0 THEN 0 ELSE lengths[k] + SumTo(lengths, k - 1)

EpisodeFrom(lengths, k) == SumTo(lengths, k - 1)

EpisodeTo(lengths, k) == SumTo(lengths, k)

TotalRows(lengths) == SumTo(lengths, Len(lengths))

\* self.hf_dataset[row]["episode_index"], as a position in self.episodes
EpisodeOfRow(lengths, row) ==
    CHOOSE k \in 1..Len(lengths) : EpisodeFrom(lengths, k) <= row /\ row < EpisodeTo(lengths, k)

\* line 181: {ep_idx: i for i, ep_idx in enumerate(self.episodes)}, the position the
\* map holds for episode id e (the last one when e is selected more than once)
episode_data_index_pos(eps, e) ==
    (CHOOSE i \in 1..Len(eps) : eps[i] = e /\ \A j \in (i + 1)..Len(eps) : eps[j] # e) - 1

\* line 203: get_episode_data_index accumulates the lengths of the dict
\* {ep_idx: length for ep_idx in self.episodes}, which holds each id once, in the
\* order of its first occurrence
IndexedLengths(eps, lengths) ==
    LET kept[i \in 0..Len(eps)] ==
            IF i = 0 THEN << >>
            ELSE IF \E j \in 1..(i - 1) : eps[j] = eps[i]
                 THEN kept[i - 1]
                 ELSE Append(kept[i - 1], lengths[i])
    IN  kept[Len(eps)]

(***************************************************************************)
(* _get_query_indices                                                      *)
(***************************************************************************)
\* the index clamped at the episode's first row only
QueryIndex_unclamped_end(idx, delta, ep_start, ep_end) == Max(ep_start, idx + delta)

\* the index clamped at the episode's last row only
QueryIndex_unclamped_start(idx, delta, ep_start, ep_end) == Min(ep_end - 1, idx + delta)

QueryIndex(idx, delta, ep_start, ep_end) == Max(ep_start, Min(ep_end - 1, idx + delta))

\* the upper bound of the episode taken as inclusive
IsPad_end_inclusive(idx, delta, ep_start, ep_end) ==
    (idx + delta < ep_start) \/ (idx + delta > ep_end)

IsPad(idx, delta, ep_start, ep_end) == (idx + delta < ep_start) \/ (idx + delta >= ep_end)

get_query_indices(idx, ep_idx, deltas, lengths) ==
    LET ep_start == EpisodeFrom(lengths, ep_idx)
        ep_end == EpisodeTo(lengths, ep_idx)
    IN  [ query_indices |->
            [key \in DOMAIN deltas |->
                [i \in 1..Len(deltas[key]) |-> QueryIndex(idx, deltas[key][i], ep_start, ep_end)]],
          padding |->
            [key \in DOMAIN deltas |->
                [i \in 1..Len(deltas[key]) |-> IsPad(idx, deltas[key][i], ep_start, ep_end)]] ]

(***************************************************************************)
(* np.random.default_rng(s): a generator whose draws are a function of s.  *)
(* shuffle draws the s-th permutation of n items, integers(0, n) a start.  *)
(***************************************************************************)
RECURSIVE Factorial(_)
Factorial(n) == IF n <= 1 THEN 1 ELSE n * Factorial(n - 1)

Remove(s, i) == [j \in 1..(Len(s) - 1) |-> IF j < i THEN s[j] ELSE s[j + 1]]

RECURSIVE PickFrom(_, _)
PickFrom(k, avail) ==
    IF avail = << >> THEN << >>
    ELSE LET f == Factorial(Len(avail) - 1)
             i == ((k \div f) % Len(avail)) + 1
         IN  <<avail[i]>> \o PickFrom(k % f, Remove(avail, i))

NthPermutation(k, n) == PickFrom(k % Factorial(n), [i \in 1..n |-> i])

AllDraws(n) ==
    { [perm |-> NthPermutation(k, n), start |-> i] : k \in 0..(Factorial(n) - 1), i \in 0..(n - 1) }

\* a generator that takes fresh entropy: any permutation, any start
default_rng_unseeded(s, n) == AllDraws(n)

\* the (permutation, start) the generator seeded with s yields for n chunks;
\* integers(0, 0) raises, so there is no draw for n = 0
default_rng(s, n) ==
    IF n = 0 THEN {}
    ELSE { [perm |-> NthPermutation(s, n), start |-> (s + (s \div Factorial(n))) % n] }

\* the generator seeded with the seed alone
rng_of_seed_only(s, worker_id, n) == default_rng(s, n)

\* line 307: the generator of the process with this worker id
rng_of(s, worker_id, n) == default_rng(s + worker_id, n)

\* the shuffled list with its last chunk replaced by a second copy of its first
Permuted_repeating(chunks, perm) ==
    [i \in 1..Len(chunks) |-> IF i = Len(chunks) THEN chunks[perm[1]] ELSE chunks[perm[i]]]

Permuted(chunks, perm) == [i \in 1..Len(chunks) |-> chunks[perm[i]]]


(***************************************************************************)
(* The process a dataset copy runs in: get_worker_info() is None in the    *)
(* main process (process 0); worker process p has worker id p - 1.         *)
(***************************************************************************)
WorkerId(p) == IF p = MainProc THEN 0 ELSE p - 1

(***************************************************************************)
(* __init__, chunk streaming mode: the mutable fields after construction.  *)
(***************************************************************************)
\* the cursor left unseeded whatever shuffle is
Constructed_always_unseeded(lengths, cs, shuf) ==
    [ chunks |-> get_keyframe_chunk_indices(lengths, cs),
      current_streaming_chunk_idx |-> None,
      current_streaming_frame_idx |-> None,
      obs_loaders |-> EmptyDict,
      should_obs_loaders_reload |-> TRUE,
      current_streaming_episode_idx |-> None,
      open_handles |-> {} ]

Constructed(lengths, cs, shuf) ==
    LET plan == get_keyframe_chunk_indices(lengths, cs)
    IN  [ chunks |-> plan,
          current_streaming_chunk_idx |-> IF shuf THEN None ELSE 0,
          current_streaming_frame_idx |-> IF shuf THEN None ELSE plan[1][1],
          obs_loaders |-> EmptyDict,
          should_obs_loaders_reload |-> TRUE,
          current_streaming_episode_idx |-> None,
          open_handles |-> {} ]

\* lines 164-179 are skipped when chunk_streaming_using_keyframe is off: the dataset
\* object has no chunk list, no cursor, no loader pool and no reload flag
NoCursor ==
    [ chunks |-> << >>,
      current_streaming_chunk_idx |-> None,
      current_streaming_frame_idx |-> None,
      obs_loaders |-> EmptyDict,
      should_obs_loaders_reload |-> FALSE,
      current_streaming_episode_idx |-> None,
      open_handles |-> {} ]

NoCall ==
    [ row |-> None, index_used |-> None, ep |-> None, chunk |-> None, seeded |-> FALSE,
      moved |-> FALSE,
      reloads |-> 0, closed |-> {}, opened |-> {}, frames |-> EmptyDict,
      query_indices |-> NoDelta, padding |-> NoDelta, foreign |-> FALSE, raised |-> "none" ]

NotBorn == [pool_empty |-> TRUE, unseeded |-> TRUE, parent_calls |-> 0]

\* an __init__ call that returned a dataset, its course left out
Untracked == [status |-> "constructed"]

LengthLists(maxEpisodes, maxLen) ==
    UNION { [1..n -> 0..maxLen] : n \in 1..maxEpisodes }

InitWith(lengthLists, chunkSizes, seeds, keySets, deltas) ==
    /\ chunk_streaming_using_keyframe = TRUE
    /\ episode_lengths \in lengthLists
    \* the selected episodes are different episodes: the ids 1, 2, ...
    /\ episodes = [i \in 1..Len(episode_lengths) |-> i]
    /\ chunk_size \in chunkSizes
    /\ shuffle \in BOOLEAN
    /\ seed \in seeds
    /\ video_keys \in keySets
    /\ delta_indices \in deltas
    \* without shuffle the constructor reads chunks[0]: there must be a chunk
    /\ shuffle \/ get_keyframe_chunk_indices(episode_lengths, chunk_size) # << >>
    /\ ds = [p \in Procs |-> Constructed(episode_lengths, chunk_size, shuffle)]
    /\ proc = [p \in Procs |-> IF p = MainProc THEN "running" ELSE "absent"]
    /\ calls = [p \in Procs |-> 0]
    /\ last = [p \in Procs |-> NoCall]
    /\ recent = [p \in Procs |-> << >>]
    /\ born = [p \in Procs |-> NotBorn]
    /\ ctor = Untracked

Init ==
    InitWith(LengthLists(MaxEpisodes, MaxLen), 1..MaxChunkSize, 0..MaxSeed,
             {{}, VideoKeyUniverse}, DeltaChoices)

(***************************************************************************)
(* __getitem__, chunk streaming mode, as one step of process p.            *)
(***************************************************************************)
\* lines 304-310: seed the cursor on the first call
Seeded(d, p, draw) ==
    IF d.current_streaming_chunk_idx = None
    THEN LET shuffled == Permuted(d.chunks, draw.perm)
         IN  [d EXCEPT !.chunks = shuffled,
                       !.current_streaming_chunk_idx = draw.start,
                       !.current_streaming_frame_idx = shuffled[draw.start + 1][1]]
    ELSE d

\* lines 312-318: the current chunk is iterated, move to the next one
ChunkIterated(d) ==
    d.current_streaming_frame_idx >= d.chunks[d.current_streaming_chunk_idx + 1][2]

\* the next chunk taken two places on
Moved_skip(d) ==
    IF ChunkIterated(d)
    THEN LET nxt == IF d.current_streaming_chunk_idx + 2 >= Len(d.chunks)
                    THEN 0 ELSE d.current_streaming_chunk_idx + 2
         IN  [d EXCEPT !.current_streaming_chunk_idx = nxt,
                       !.current_streaming_frame_idx = d.chunks[nxt + 1][1],
                       !.should_obs_loaders_reload = TRUE]
    ELSE d

\* the chunk list put in a new order whenever the cursor restarts from the beginning
Moved_reorder_on_restart(d) ==
    IF ChunkIterated(d)
    THEN IF d.current_streaming_chunk_idx + 1 >= Len(d.chunks)
         THEN LET reordered == [i \in 1..Len(d.chunks) |-> d.chunks[Len(d.chunks) + 1 - i]]
              IN  [d EXCEPT !.chunks = reordered,
                            !.current_streaming_chunk_idx = 0,
                            !.current_streaming_frame_idx = reordered[1][1],
                            !.should_obs_loaders_reload = TRUE]
         ELSE [d EXCEPT !.current_streaming_chunk_idx = @ + 1,
                        !.current_streaming_frame_idx =
                            d.chunks[d.current_streaming_chunk_idx + 2][1],
                        !.should_obs_loaders_reload = TRUE]
    ELSE d

\* every move taken back to the first chunk of the list
Moved_always_restart(d) ==
    IF ChunkIterated(d)
    THEN [d EXCEPT !.current_streaming_chunk_idx = 0,
                   !.current_streaming_frame_idx = d.chunks[1][1],
                   !.should_obs_loaders_reload = TRUE]
    ELSE d

Moved(d) ==
    IF ChunkIterated(d)
    THEN LET nxt == IF d.current_streaming_chunk_idx + 1 >= Len(d.chunks)
                    THEN 0 ELSE d.current_streaming_chunk_idx + 1
         IN  [d EXCEPT !.current_streaming_chunk_idx = nxt,
                       !.current_streaming_frame_idx = d.chunks[nxt + 1][1],
                       !.should_obs_loaders_reload = TRUE]
    ELSE d

\* the handles of a pool, as the open resources they stand for
HandlesOf(loaders) ==
    { [key |-> k, owner |-> loaders[k].owner, ep |-> loaders[k].ep,
       start_idx |-> loaders[k].start_idx] : k \in DOMAIN loaders }

\* the old loaders dropped without being closed
CloseAll_none(open, loaders) == open

\* lines 323-325: close every loader of the pool
CloseAll(open, loaders) == open \ HandlesOf(loaders)

\* every loader started at the first frame of the episode
OpenAll_from_episode_start(d, p, ep_idx) ==
    [k \in video_keys |-> [owner |-> p, ep |-> ep_idx, start_idx |-> 0, pos |-> 0]]

\* lines 328-352: one loader per video key, for the row's episode, from the chunk's local start
OpenAll(d, p, ep_idx) ==
    [k \in video_keys |->
        [owner |-> p, ep |-> ep_idx,
         start_idx |-> d.chunks[d.current_streaming_chunk_idx + 1][3], pos |-> 0]]

\* the pool reloaded only when the row's episode differs from the loaded one
Reloaded_on_episode_change(d, p, ep_idx) ==
    IF d.should_obs_loaders_reload /\ d.current_streaming_episode_idx # ep_idx
    THEN LET fresh == [k \in video_keys |->
                          [owner |-> p, ep |-> ep_idx,
                           start_idx |-> d.chunks[d.current_streaming_chunk_idx + 1][3],
                           pos |-> 0]]
         IN  [ d |-> [d EXCEPT !.open_handles =
                                    (d.open_handles \ HandlesOf(d.obs_loaders)) \cup HandlesOf(fresh),
                               !.obs_loaders = fresh,
                               !.current_streaming_episode_idx = ep_idx,
                               !.should_obs_loaders_reload = FALSE],
               reloads |-> 1 ]
    ELSE [d |-> [d EXCEPT !.should_obs_loaders_reload = FALSE], reloads |-> 0]

\* lines 322-353: the dataset after the reload block, and how often it reloaded
Reloaded(d, p, ep_idx) ==
    IF d.should_obs_loaders_reload
    THEN LET fresh == OpenAll(d, p, ep_idx)
         IN  [ d |-> [d EXCEPT !.open_handles =
                                    CloseAll(d.open_handles, d.obs_loaders) \cup HandlesOf(fresh),
                               !.obs_loaders = fresh,
                               !.current_streaming_episode_idx = ep_idx,
                               !.should_obs_loaders_reload = FALSE],
               reloads |-> 1 ]
    ELSE [d |-> d, reloads |-> 0]

\* lines 364-365: next(loader) for every video key; the frame each one yields
FramesOf(loaders) ==
    [k \in DOMAIN loaders |->
        [ep |-> loaders[k].ep, local |-> loaders[k].start_idx + loaders[k].pos]]

Advanced(d) ==
    [d EXCEPT !.obs_loaders = [k \in DOMAIN d.obs_loaders |->
                                  [d.obs_loaders[k] EXCEPT !.pos = @ + 1]]]

\* a loader yields frames up to the end of its episode's video
CanDecode(loaders) ==
    \A k \in DOMAIN loaders :
        loaders[k].start_idx + loaders[k].pos < episode_lengths[loaders[k].ep]

\* the frame position advanced by two
FrameAdvanced_by_two(d) == [d EXCEPT !.current_streaming_frame_idx = @ + 2]

\* the frame position left where it is
FrameAdvanced_not(d) == d

\* line 375
FrameAdvanced(d) == [d EXCEPT !.current_streaming_frame_idx = @ + 1]

Slide(window, row, size) ==
    IF Len(window) < size THEN Append(window, row) ELSE Append(Tail(window), row)

\* the row read at the idx argument
StreamRow_at_idx(d, idx) == idx

\* line 319: the row read is the one at the cursor's frame position, whatever idx is
StreamRow(d, idx) == d.current_streaming_frame_idx

\* lines 302-377: the fetch in chunk streaming mode, which ignores idx
StreamingGetItem(p, idx) ==
    \E draw \in IF ds[p].current_streaming_chunk_idx = None
                THEN rng_of(seed, WorkerId(p), Len(ds[p].chunks))
                ELSE {[perm |-> << >>, start |-> 0]} :
    LET d0 == ds[p]
        d1 == Seeded(d0, p, draw)
        d2 == Moved(d1)
        row == StreamRow(d2, idx)
        ep_idx == EpisodeOfRow(episode_lengths, row)
        r == Reloaded(d2, p, ep_idx)
        d3 == r.d
        indexed == IndexedLengths(episodes, episode_lengths)
        pos == episode_data_index_pos(episodes, episodes[ep_idx]) + 1
        q == get_query_indices(row, pos, delta_indices, indexed)
        d4 == FrameAdvanced(Advanced(d3))
        closed == IF r.reloads > 0 THEN HandlesOf(d2.obs_loaders) ELSE {}
        foreign == \E h \in closed \cup HandlesOf(d3.obs_loaders) : h.owner # p
    IN  /\ row \in 0..(TotalRows(episode_lengths) - 1)
        \* the resolver indexes episode_data_index at the position the map holds
        /\ delta_indices # NoDelta => pos <= Len(indexed)
        /\ CanDecode(d3.obs_loaders)
        /\ \E outcome \in IF foreign THEN {"ok", "crash"} ELSE {"ok"} :
            IF outcome = "ok"
            THEN /\ ds' = [ds EXCEPT ![p] = d4]
                 /\ proc' = proc
                 /\ calls' = [calls EXCEPT ![p] = Min(@ + 1, CallCap)]
                 /\ last' = [last EXCEPT ![p] =
                        [ row |-> row, index_used |-> None, ep |-> ep_idx,
                          chunk |-> d2.current_streaming_chunk_idx,
                          seeded |-> d0.current_streaming_chunk_idx = None,
                          moved |-> ChunkIterated(d1),
                          reloads |-> r.reloads,
                          closed |-> closed,
                          opened |-> IF r.reloads > 0
                                     THEN HandlesOf(d3.obs_loaders) ELSE {},
                          frames |-> FramesOf(d3.obs_loaders),
                          query_indices |-> q.query_indices,
                          padding |-> q.padding,
                          foreign |-> last[p].foreign \/ foreign,
                          raised |-> "none" ]]
                 /\ recent' = [recent EXCEPT ![p] =
                        Slide(@, row, TotalRows(episode_lengths))]
            ELSE /\ proc' = [proc EXCEPT ![p] = "crashed"]
                 /\ last' = [last EXCEPT ![p].foreign = TRUE]
                 /\ UNCHANGED <<ds, calls, recent>>

\* lines 395-407: _query_videos decodes, for every video key, the frame of the row from
\* the video file of the row's episode; no loader is kept from one fetch to the next
query_videos_stale(ep_idx, local) ==
    [k \in video_keys |-> [ep |-> 1, local |-> local]]

query_videos(ep_idx, local) ==
    [k \in video_keys |-> [ep |-> ep_idx, local |-> local]]

\* the fetch marking the loader pool for reload
Delegated_marks_reload(d, idx) ==
    [d |-> [d EXCEPT !.should_obs_loaders_reload = TRUE], row |-> idx]

\* lines 300-301: the fetch handed to LeRobotDataset.__getitem__(idx); the dataset
\* object after it and the row it reads
Delegated(d, idx) == [d |-> d, row |-> idx]

\* lines 300-301 with the overridden _get_query_indices and _query_videos: the fetch
\* when chunk streaming is off
super_getitem(p, idx) ==
    LET r == Delegated(ds[p], idx)
        row == r.row
        ep_idx == EpisodeOfRow(episode_lengths, row)
        indexed == IndexedLengths(episodes, episode_lengths)
        pos == episode_data_index_pos(episodes, episodes[ep_idx]) + 1
        q == get_query_indices(row, pos, delta_indices, indexed)
    IN  /\ row \in 0..(TotalRows(episode_lengths) - 1)
        \* the resolver indexes episode_data_index at the position the map holds
        /\ delta_indices # NoDelta => pos <= Len(indexed)
        /\ ds' = [ds EXCEPT ![p] = r.d]
        /\ proc' = proc
        /\ calls' = [calls EXCEPT ![p] = Min(@ + 1, CallCap)]
        /\ last' = [last EXCEPT ![p] =
                [NoCall EXCEPT !.row = row,
                               !.index_used = idx,
                               !.ep = ep_idx,
                               !.frames = query_videos(ep_idx,
                                              row - EpisodeFrom(episode_lengths, ep_idx)),
                               !.query_indices = q.query_indices,
                               !.padding = q.padding]]
        /\ recent' = [recent EXCEPT ![p] = Slide(@, row, 2)]

GetItem(p, idx) ==
    /\ proc[p] = "running"
    /\ IF chunk_streaming_using_keyframe THEN StreamingGetItem(p, idx) ELSE super_getitem(p, idx)
    /\ UNCHANGED <<config, born>>

\* a data-loading worker process starts with a copy of the main process's dataset object
Fork(w) ==
    /\ w # MainProc
    /\ proc[w] = "absent"
    /\ proc[MainProc] = "running"
    /\ ds' = [ds EXCEPT ![w] = ds[MainProc]]
    /\ proc' = [proc EXCEPT ![w] = "running"]
    /\ born' = [born EXCEPT ![w] =
            [ pool_empty |-> ds[MainProc].obs_loaders = EmptyDict,
              unseeded |-> ds[MainProc].current_streaming_chunk_idx = None,
              parent_calls |-> calls[MainProc] ]]
    /\ UNCHANGED <<config, calls, last, recent>>

\* the idx argument of a fetch: the first and the last index of the dataset
IdxArgs == {0, Max(0, TotalRows(episode_lengths) - 1)}

Next == \E idx \in IdxArgs : GetItem(MainProc, idx)

Spec == Init /\ [][Next]_vars

(***************************************************************************)
(* The dataset shared with data-loading workers: the main process and      *)
(* NumWorkers worker processes, each making at most CallCap calls.         *)
(***************************************************************************)
WorkerEpisodeCounts == {1, 2}

WorkerChunkSizes == {1, 2}

WorkerSeeds == {0, 1}

InitWorkers ==
    InitWith(UNION { [1..n -> 1..WorkerMaxLen] : n \in WorkerEpisodeCounts }, WorkerChunkSizes,
             WorkerSeeds, {VideoKeyUniverse}, {NoDelta})

NextWorkers ==
    \/ \E p \in Procs : \E idx \in IdxArgs : calls[p] < CallCap /\ GetItem(p, idx)
    \/ \E w \in Procs : Fork(w)

SpecWorkers == InitWorkers /\ [][NextWorkers]_vars


(***************************************************************************)
(* Shorthands for the properties below.                                    *)
(***************************************************************************)
Plan == get_keyframe_chunk_indices(episode_lengths, chunk_size)

Main == ds[MainProc]

NumRows == TotalRows(episode_lengths)

\* the chunks (by place in the list) that start inside the rows of the episode at position k
ChunksOfEpisode(chunks, k) ==
    { i \in 1..Len(chunks) :
        /\ EpisodeFrom(episode_lengths, k) <= chunks[i][1]
        /\ chunks[i][1] < EpisodeTo(episode_lengths, k) }

\* the chunks that hold global row r
ChunksHolding(chunks, r) ==
    { i \in 1..Len(chunks) : chunks[i][1] <= r /\ r < chunks[i][2] }

(***************************************************************************)
(* C1. Chunk coverage: for every selected episode the chunks the planner   *)
(* emits for it are non-empty, lie inside the episode, follow each other   *)
(* without a gap (each starts where the previous one ends), cover every    *)
(* row of the episode exactly once, and carry local_start = global_start   *)
(* minus the episode's first global row; every chunk belongs to an episode.*)
(***************************************************************************)
C1_ChunkCoverage ==
    LET plan == Plan
    IN  /\ \A i \in 1..Len(plan) :
            \E k \in 1..Len(episode_lengths) : i \in ChunksOfEpisode(plan, k)
        /\ \A k \in 1..Len(episode_lengths) :
            LET own == ChunksOfEpisode(plan, k)
                from == EpisodeFrom(episode_lengths, k)
                to == EpisodeTo(episode_lengths, k)
            IN  /\ \A i \in own :
                    /\ plan[i][1] < plan[i][2]
                    /\ plan[i][2] <= to
                    /\ plan[i][3] = plan[i][1] - from
                    /\ plan[i][1] = from \/ (i - 1 \in own /\ plan[i - 1][2] = plan[i][1])
                    /\ plan[i][2] = to \/ (i + 1 \in own /\ plan[i + 1][1] = plan[i][2])
                /\ \A r \in from..(to - 1) :
                    LET holding == ChunksHolding(plan, r)
                    IN  Cardinality(holding) = 1 /\ holding \subseteq own

\* an episode split into several chunks, the last one shorter, after another episode
C1_Witness ==
    /\ Len(episode_lengths) = 2
    /\ \E i \in 1..Len(Plan) :
        /\ Plan[i][3] > 0
        /\ Plan[i][1] > Plan[i][3]
        /\ Plan[i][2] - Plan[i][1] < chunk_size
    /\ Main.chunks = Plan

(***************************************************************************)
(* C2. Cursor totality: the rows returned by any run of consecutive calls  *)
(* no longer than one cycle (as many calls as there are rows) are pairwise *)
(* different, a full cycle returns every global row, and a call that       *)
(* leaves the last chunk of the list continues at chunk index 0.           *)
(***************************************************************************)
C2_NoRepeatInCycle ==
    \A i, j \in 1..Len(recent[MainProc]) :
        i # j => recent[MainProc][i] # recent[MainProc][j]

C2_FullCycleCoversRows ==
    Len(recent[MainProc]) = NumRows =>
        { recent[MainProc][i] : i \in 1..Len(recent[MainProc]) } = 0..(NumRows - 1)

C2_WrapsToFirstChunk ==
    (/\ last[MainProc].chunk = Len(Main.chunks) - 1
     /\ last'[MainProc].chunk # last[MainProc].chunk) => last'[MainProc].chunk = 0

\* C2: every window of one cycle returns each row once, and the list wraps to chunk 0
C2_CursorTotality ==
    /\ [](C2_NoRepeatInCycle /\ C2_FullCycleCoversRows)
    /\ [][C2_WrapsToFirstChunk]_vars

\* a full cycle over several shuffled chunks, started in the middle of the list, just completed
C2_Witness ==
    /\ shuffle
    /\ Len(Main.chunks) >= 3
    /\ Len(recent[MainProc]) = NumRows
    /\ NumRows > Len(Main.chunks)
    /\ recent[MainProc][1] = Main.chunks[2][1]
    /\ last[MainProc].chunk = 0

(***************************************************************************)
(* C3. Reload correctness: a call reloads the loader pool exactly once     *)
(* when the row it returns is the first row of its chunk (the first fetch  *)
(* after construction and every chunk transition, also inside one episode) *)
(* and not at all otherwise; a reload closes every loader the pool held    *)
(* and opens one per video key.                                            *)
(***************************************************************************)
C3_ReloadCorrectness ==
    calls[MainProc] >= 1 =>
        LET l == last[MainProc]
            atChunkStart == l.row = Main.chunks[l.chunk + 1][1]
        IN  /\ l.reloads = IF atChunkStart THEN 1 ELSE 0
            /\ calls[MainProc] = 1 => atChunkStart
            /\ l.reloads = 1 =>
                /\ { h.key : h \in l.opened } = video_keys
                /\ Main.open_handles \cap l.closed \subseteq l.opened
            /\ l.reloads = 0 => (l.opened = {} /\ l.closed = {})

\* a chunk transition inside one episode has just reloaded the pool
C3_Witness ==
    /\ calls[MainProc] >= 2
    /\ last[MainProc].reloads = 1
    /\ video_keys # {}
    /\ last[MainProc].closed # {}
    /\ \E h \in last[MainProc].closed : h.ep = last[MainProc].ep
    /\ Main.chunks[last[MainProc].chunk + 1][3] > 0


(***************************************************************************)
(* C4. Cursor determinism: two processes whose dataset copies start from   *)
(* the constructed state and whose worker ids are equal (the main process  *)
(* counts as worker id 0) hold the same chunk list, chunk index and frame  *)
(* position after the same number of calls.                                *)
(***************************************************************************)
FromConstruction(p) ==
    \/ p = MainProc
    \/ proc[p] # "absent" /\ born[p].parent_calls = 0

Cursor(p) ==
    <<ds[p].chunks, ds[p].current_streaming_chunk_idx, ds[p].current_streaming_frame_idx>>

C4_CursorDeterminism ==
    \A p, q \in Procs :
        (/\ FromConstruction(p) /\ FromConstruction(q)
         /\ WorkerId(p) = WorkerId(q)
         /\ calls[p] = calls[q]) => (Cursor(p) = Cursor(q) /\ last[p].row = last[q].row)

\* the main process and worker 0, both seeded from a shuffle, are past a chunk transition
C4_Witness ==
    \E w \in Procs \ {MainProc} :
        /\ WorkerId(w) = 0 /\ FromConstruction(w)
        /\ shuffle /\ Len(Main.chunks) >= 2 /\ Main.chunks # Plan
        /\ calls[w] = calls[MainProc] /\ calls[w] >= 2
        /\ last[w].moved /\ last[MainProc].moved

(***************************************************************************)
(* C5. Delta-window clamping: for the row a call returns and its episode,  *)
(* and for every global row and every non-empty selected episode, each     *)
(* resolved query index lies in [episode_start, episode_end) and its       *)
(* padding flag is true exactly when row + offset lies outside that range; *)
(* a group's padding has one flag per offset, in offset order.             *)
(***************************************************************************)
C5_Resolved(q, row, ep) ==
    LET from == EpisodeFrom(episode_lengths, ep)
        to == EpisodeTo(episode_lengths, ep)
    IN  /\ DOMAIN q.query_indices = DOMAIN delta_indices
        /\ DOMAIN q.padding = DOMAIN delta_indices
        /\ \A key \in DOMAIN delta_indices :
            /\ Len(q.query_indices[key]) = Len(delta_indices[key])
            /\ Len(q.padding[key]) = Len(delta_indices[key])
            /\ \A i \in 1..Len(delta_indices[key]) :
                /\ q.query_indices[key][i] \in from..(to - 1)
                /\ q.padding[key][i] <=> (row + delta_indices[key][i] \notin from..(to - 1))

C5_DeltaWindowClamping ==
    /\ calls[MainProc] >= 1 =>
        C5_Resolved(last[MainProc], last[MainProc].row, last[MainProc].ep)
    /\ \A row \in 0..(NumRows - 1) : \A ep \in 1..Len(episode_lengths) :
        episode_lengths[ep] > 0 =>
            C5_Resolved(get_query_indices(row, ep, delta_indices, episode_lengths), row, ep)

\* a call at the last row of the second episode, with offsets clamped at both ends
C5_Witness ==
    /\ calls[MainProc] >= 1
    /\ "action" \in DOMAIN delta_indices
    /\ Len(episode_lengths) = 2
    /\ last[MainProc].ep = 2
    /\ last[MainProc].row = NumRows - 1
    /\ \E i, j \in 1..Len(last[MainProc].padding.action) :
        /\ last[MainProc].padding.action[i]
        /\ last[MainProc].query_indices.action[i] = last[MainProc].row
        /\ ~last[MainProc].padding.action[j]
        /\ last[MainProc].query_indices.action[j] < last[MainProc].row

(***************************************************************************)
(* C6, as claimed. After every call returns, the frame position lies       *)
(* inside [global_start, global_end) of the chunk at the chunk index: the  *)
(* call that returns a chunk's last record has already moved on.           *)
(***************************************************************************)
C6_EagerStep ==
    calls[MainProc] >= 1 =>
        LET c == Main.chunks[Main.current_streaming_chunk_idx + 1]
        IN  c[1] <= Main.current_streaming_frame_idx /\ Main.current_streaming_frame_idx < c[2]

(***************************************************************************)
(* C6, amended. The step is lazy: after every call returns, the frame      *)
(* position is one past the returned row and lies in (global_start,        *)
(* global_end] of the chunk at the chunk index, which is still the chunk   *)
(* of the returned row; a call that finds the frame position at the        *)
(* chunk's end first moves to the next chunk (index 0 after the last),     *)
(* resets the frame position to that chunk's start and reloads, and then   *)
(* returns that chunk's first row.                                         *)
(***************************************************************************)
C6_AfterCall ==
    calls[MainProc] >= 1 =>
        LET c == Main.chunks[Main.current_streaming_chunk_idx + 1]
        IN  /\ Main.current_streaming_frame_idx = last[MainProc].row + 1
            /\ Main.current_streaming_chunk_idx = last[MainProc].chunk
            /\ c[1] < Main.current_streaming_frame_idx
            /\ Main.current_streaming_frame_idx <= c[2]
            /\ ~Main.should_obs_loaders_reload

C6_MoveOnNextCall ==
    (/\ calls[MainProc] >= 1
     /\ ds'[MainProc] # ds[MainProc]
     /\ Main.current_streaming_frame_idx
            = Main.chunks[Main.current_streaming_chunk_idx + 1][2]) =>
        LET n == Len(Main.chunks)
            nxt == (Main.current_streaming_chunk_idx + 1) % n
        IN  /\ last'[MainProc].moved
            /\ last'[MainProc].chunk = nxt
            /\ last'[MainProc].row = Main.chunks[nxt + 1][1]
            /\ last'[MainProc].reloads = 1

\* C6, amended: the frame position rests at the chunk's end; the next call moves on
C6_LazyStep == []C6_AfterCall /\ [][C6_MoveOnNextCall]_vars

\* the last record of the last chunk has been returned and the cursor still stands at that chunk
C6_Witness ==
    /\ calls[MainProc] >= 2
    /\ Len(Main.chunks) >= 2
    /\ Main.current_streaming_chunk_idx = Len(Main.chunks) - 1
    /\ Main.current_streaming_frame_idx = Main.chunks[Len(Main.chunks)][2]

(***************************************************************************)
(* C7. Ordering within one worker: the first call returns the first row of *)
(* its chunk; after a call that returned a row other than its chunk's last *)
(* the next call returns the next row of the same chunk; after a chunk's   *)
(* last row the next call returns the first row of the chunk that follows  *)
(* it in the (permuted) list, index 0 following the last index.            *)
(***************************************************************************)
C7_FirstRow ==
    calls[MainProc] = 1 =>
        last[MainProc].row = Main.chunks[last[MainProc].chunk + 1][1]

C7_NextRow ==
    (calls[MainProc] >= 1 /\ ds'[MainProc] # ds[MainProc]) =>
        LET l == last[MainProc]
            c == Main.chunks[l.chunk + 1]
            n == Len(Main.chunks)
        IN  IF l.row + 1 < c[2]
            THEN last'[MainProc].chunk = l.chunk /\ last'[MainProc].row = l.row + 1
            ELSE /\ last'[MainProc].chunk = IF l.chunk = n - 1 THEN 0 ELSE l.chunk + 1
                 /\ last'[MainProc].row = Main.chunks[last'[MainProc].chunk + 1][1]

\* C7: rows rise by one inside a chunk, chunks follow the order of the permuted list
C7_Ordering == []C7_FirstRow /\ [][C7_NextRow]_vars

\* a shuffled list: the call after the last chunk's last row returned the first row of chunk 0,
\* which is not global row 0
C7_Witness ==
    /\ shuffle /\ calls[MainProc] >= 3
    /\ Len(Main.chunks) >= 3
    /\ last[MainProc].moved /\ last[MainProc].chunk = 0
    /\ last[MainProc].row # 0
    /\ Len(recent[MainProc]) >= 2
    /\ recent[MainProc][Len(recent[MainProc]) - 1] = Main.chunks[Len(Main.chunks)][2] - 1


(***************************************************************************)
(* C8. Close-before-open: a reload closes every handle that was open       *)
(* before it opens the replacements, so the open handles are always        *)
(* exactly the loaders of the pool: at most one per video key, all of one  *)
(* episode.                                                                *)
(***************************************************************************)
C8_OneHandlePerKey ==
    \A p \in Procs :
        /\ ds[p].open_handles = HandlesOf(ds[p].obs_loaders)
        /\ DOMAIN ds[p].obs_loaders \subseteq video_keys
        /\ \A h1, h2 \in ds[p].open_handles :
            /\ h1.key = h2.key => h1 = h2
            /\ h1.ep = h2.ep
            /\ h1.ep = ds[p].current_streaming_episode_idx

C8_ReloadClosesAll ==
    \A p \in Procs :
        (ds'[p] # ds[p] /\ last'[p].reloads = 1) =>
            /\ last'[p].closed = ds[p].open_handles
            /\ ds'[p].open_handles = last'[p].opened

\* C8: a reload closes all open handles, then opens one per video key for one episode
C8_CloseBeforeOpen == []C8_OneHandlePerKey /\ [][C8_ReloadClosesAll]_vars

\* a reload has replaced the two loaders of one episode by two loaders of another episode
C8_Witness ==
    /\ Cardinality(video_keys) = 2
    /\ last[MainProc].reloads = 1
    /\ Cardinality(last[MainProc].closed) = 2
    /\ \A h \in last[MainProc].closed : h.ep # last[MainProc].ep
    /\ Cardinality(Main.open_handles) = 2

(***************************************************************************)
(* C9. Seeding happens once: with shuffle the cursor is unseeded until the *)
(* first call, which permutes the planner's chunk list and picks the start *)
(* chunk as the generator seeded with seed + worker id draws them and      *)
(* returns that chunk's first row; from then on the chunk index is never   *)
(* None and the chunk list never changes. Without shuffle no call seeds.   *)
(***************************************************************************)
C9_Seeding ==
    /\ calls[MainProc] = 0 =>
        /\ Main.chunks = Plan
        /\ (Main.current_streaming_chunk_idx = None) <=> shuffle
    /\ calls[MainProc] >= 1 =>
        /\ Main.current_streaming_chunk_idx # None
        /\ last[MainProc].seeded <=> (shuffle /\ calls[MainProc] = 1)
        /\ IF shuffle
           THEN \E draw \in default_rng(seed + WorkerId(MainProc), Len(Plan)) :
                    /\ Main.chunks = Permuted(Plan, draw.perm)
                    /\ calls[MainProc] = 1 =>
                        /\ last[MainProc].chunk = draw.start
                        /\ last[MainProc].row = Main.chunks[draw.start + 1][1]
           ELSE Main.chunks = Plan

C9_StaysSeeded ==
    Main.current_streaming_chunk_idx # None =>
        /\ ds'[MainProc].current_streaming_chunk_idx # None
        /\ ds'[MainProc].chunks = Main.chunks

\* C9: the cursor is seeded by the first call only, and the chunk order then stays
C9_SeededOnce == []C9_Seeding /\ [][C9_StaysSeeded]_vars

\* a seeded cursor over a list the shuffle has reordered has gone round once
C9_Witness ==
    /\ shuffle
    /\ Main.chunks # Plan
    /\ Len(recent[MainProc]) = NumRows
    /\ calls[MainProc] >= 3
    /\ last[MainProc].moved /\ last[MainProc].chunk = 0

(***************************************************************************)
(* C10, as claimed. Process affinity: no process reads or closes a loader  *)
(* that another process opened, and every worker process starts with an    *)
(* empty pool and, with shuffle, an unseeded cursor.                       *)
(***************************************************************************)
C10_ProcessAffinity ==
    \A p \in Procs :
        /\ ~last[p].foreign
        /\ (p # MainProc /\ calls[p] >= 1) =>
            /\ born[p].pool_empty
            /\ shuffle => born[p].unseeded

(***************************************************************************)
(* C13. Chunk sizes: every chunk of the plan has exactly chunk_size rows,  *)
(* except that the final chunk of an episode (the one that ends at the     *)
(* episode's last row) may be shorter: it has between 1 and chunk_size     *)
(* rows.                                                                   *)
(***************************************************************************)
C13_ChunkSizes ==
    LET plan == Plan
    IN  \A i \in 1..Len(plan) :
            LET size == plan[i][2] - plan[i][1]
                final == \E k \in 1..Len(episode_lengths) :
                            /\ i \in ChunksOfEpisode(plan, k)
                            /\ plan[i][2] = EpisodeTo(episode_lengths, k)
            IN  IF final THEN size \in 1..chunk_size ELSE size = chunk_size

\* a full chunk, then a shorter final chunk, then a final chunk of exactly chunk_size rows
C13_Witness ==
    /\ chunk_size = 2
    /\ episode_lengths = <<3, 2>>
    /\ Main.chunks = <<<<0, 2, 0>>, <<2, 3, 2>>, <<3, 5, 0>>>>
    /\ Main.chunks = Plan

(***************************************************************************)
(* C14. Short episodes: an episode whose length L is below chunk_size      *)
(* yields exactly one chunk, (offset, offset + L, 0), offset being the     *)
(* episode's first global row.                                             *)
(***************************************************************************)
\* as stated, for every L < chunk_size, L = 0 included
C14_ShortEpisodeOneChunk ==
    LET plan == Plan
    IN  \A k \in 1..Len(episode_lengths) :
            LET L == episode_lengths[k]
                offset == EpisodeFrom(episode_lengths, k)
            IN  L < chunk_size =>
                    /\ EpisodeChunks(L, offset, chunk_size) = << <<offset, offset + L, 0>> >>
                    /\ Cardinality(ChunksOfEpisode(plan, k)) = 1

\* C14, for 1 <= L < chunk_size: exactly one chunk (offset, offset + L, 0);
\* an episode of length 0 yields no chunk
C14_ShortEpisode ==
    LET plan == Plan
    IN  \A k \in 1..Len(episode_lengths) :
            LET L == episode_lengths[k]
                offset == EpisodeFrom(episode_lengths, k)
                own == ChunksOfEpisode(plan, k)
            IN  L < chunk_size =>
                    IF L = 0
                    THEN EpisodeChunks(L, offset, chunk_size) = << >> /\ own = {}
                    ELSE /\ EpisodeChunks(L, offset, chunk_size) = << <<offset, offset + L, 0>> >>
                         /\ Cardinality(own) = 1
                         /\ \A i \in own : plan[i] = <<offset, offset + L, 0>>

\* a short episode after another episode, planned as one chunk that the cursor has reached
C14_Witness ==
    /\ Len(episode_lengths) = 2
    /\ episode_lengths[1] >= 1
    /\ episode_lengths[2] \in 1..(chunk_size - 1)
    /\ Main.chunks = Plan
    /\ Plan[Len(Plan)] = <<episode_lengths[1], episode_lengths[1] + episode_lengths[2], 0>>
    /\ last[MainProc].chunk = Len(Plan) - 1

(***************************************************************************)
(* The worked examples: episodes of 600 rows planned with the default      *)
(* chunk_size of 250 (the GOP size), and a delta window of offsets         *)
(* (-2, 0, 3) over an episode that holds the global rows 100..149.         *)
(***************************************************************************)
GopSize == 250

DefaultSeed == 42

ExampleLengths == {<<600>>, <<600, 600>>, <<100, 50>>}

ExampleDelta == [action |-> <<-2, 0, 3>>]

InitExamples ==
    InitWith(ExampleLengths, {GopSize}, {DefaultSeed}, {VideoKeyUniverse}, {ExampleDelta})

SpecExamples == InitExamples /\ [][Next]_vars

(***************************************************************************)
(* C15. With chunk_size 250 an episode of 600 rows at offset 0 is planned  *)
(* as (0,250,0), (250,500,250), (500,600,500); two such episodes give the  *)
(* second one the chunks (600,850,0), (850,1100,250), (1100,1200,500).     *)
(***************************************************************************)
C15_ExamplePlan ==
    LET plan == Plan
    IN  chunk_size = 250 =>
            /\ episode_lengths = <<600>> =>
                    plan = << <<0, 250, 0>>, <<250, 500, 250>>, <<500, 600, 500>> >>
            /\ episode_lengths = <<600, 600>> =>
                    /\ Len(plan) = 6
                    /\ SubSeq(plan, 1, 3) = << <<0, 250, 0>>, <<250, 500, 250>>, <<500, 600, 500>> >>
                    /\ SubSeq(plan, 4, 6) =
                            << <<600, 850, 0>>, <<850, 1100, 250>>, <<1100, 1200, 500>> >>

\* two episodes of 600 rows: the cursor has walked the plan in order up to the last row
C15_Witness ==
    /\ episode_lengths = <<600, 600>>
    /\ chunk_size = 250
    /\ Main.chunks = Plan
    /\ last[MainProc].chunk = 5
    /\ Main.chunks[6] = <<1100, 1200, 500>>
    /\ last[MainProc].row = 1199

\* the fetch of global row r in an episode that holds the global rows 100..149,
\* with the delta offsets (-2, 0, 3)
ExampleFetch(r) ==
    /\ delta_indices = ExampleDelta
    /\ last[MainProc].row = r
    /\ EpisodeFrom(episode_lengths, last[MainProc].ep) = 100
    /\ EpisodeTo(episode_lengths, last[MainProc].ep) = 150

(***************************************************************************)
(* C16. Offsets (-2, 0, 3) at global row 149 of the episode with rows      *)
(* 100..149 resolve to the indices (147, 149, 149) with padding            *)
(* (false, false, true).                                                   *)
(***************************************************************************)
C16_ExampleLastRow ==
    ExampleFetch(149) =>
        /\ last[MainProc].query_indices["action"] = <<147, 149, 149>>
        /\ last[MainProc].padding["action"] = <<FALSE, FALSE, TRUE>>

\* row 149 has been fetched and resolved
C16_Witness ==
    /\ ExampleFetch(149)
    /\ last[MainProc].query_indices["action"][3] = 149

(***************************************************************************)
(* C17. Offsets (-2, 0, 3) at global row 101 of the episode with rows      *)
(* 100..149 resolve to the indices (100, 101, 104).                        *)
(***************************************************************************)
\* as stated: with padding (false, false, false)
C17_ExampleNoPadding ==
    ExampleFetch(101) =>
        /\ last[MainProc].query_indices["action"] = <<100, 101, 104>>
        /\ last[MainProc].padding["action"] = <<FALSE, FALSE, FALSE>>

\* C17, with the padding the resolver returns: (true, false, false), since 101 - 2 = 99
\* lies before the episode's first row 100
C17_ExampleSecondRow ==
    ExampleFetch(101) =>
        /\ last[MainProc].query_indices["action"] = <<100, 101, 104>>
        /\ last[MainProc].padding["action"] = <<TRUE, FALSE, FALSE>>

\* row 101 has been fetched and resolved
C17_Witness ==
    /\ ExampleFetch(101)
    /\ last[MainProc].query_indices["action"][1] = 100

(***************************************************************************)
(* The cursor under a caller that keeps fetching: the main process alone,  *)
(* with a fetch taken whenever one stays possible.                         *)
(***************************************************************************)
Largest(S) == CHOOSE x \in S : \A y \in S : y <= x

InitLive ==
    InitWith(UNION { [1..n -> 0..WorkerMaxLen] : n \in WorkerEpisodeCounts }, WorkerChunkSizes,
             WorkerSeeds, {VideoKeyUniverse}, {NoDelta})

SpecLive == InitLive /\ [][Next]_vars /\ WF_vars(Next)

\* the global rows and the chunk indices a dataset of SpecLive can have
LiveRows == 0..(Largest(WorkerEpisodeCounts) * WorkerMaxLen - 1)

(***************************************************************************)
(* C12. The cursor has no terminal state: when the plan has at least one   *)
(* chunk a fetch is possible in every reachable state, and under repeated  *)
(* fetches every chunk and every global row is returned again and again.   *)
(***************************************************************************)
C12_FetchEnabled == Len(Plan) >= 1 => ENABLED Next

C12_NoTerminalState ==
    /\ []C12_FetchEnabled
    /\ \A r \in LiveRows : []<>(r >= NumRows \/ last[MainProc].row = r)
    /\ \A c \in LiveRows : []<>(c >= Len(Main.chunks) \/ last[MainProc].chunk = c)

\* a second lap: every row has been returned, and the first row of the plan is returned again
C12_Witness ==
    /\ ~shuffle
    /\ Len(Main.chunks) >= 2
    /\ Len(recent[MainProc]) = NumRows
    /\ recent[MainProc][1] = 1
    /\ last[MainProc].row = 0
    /\ last[MainProc].chunk = 0

(***************************************************************************)
(* Teardown of a process that holds a dataset copy. The class defines no   *)
(* close, __del__ or __exit__: loaders are closed at lines 323-325 only,   *)
(* when a fetch reloads the pool. A process that goes away runs none of    *)
(* the dataset's code, so its copy is dropped with the pool as it stands.  *)
(***************************************************************************)
Teardown(p) ==
    /\ proc[p] = "running"
    /\ proc' = [proc EXCEPT ![p] = "torn_down"]
    /\ UNCHANGED <<config, ds, calls, last, recent, born>>

NextTeardown ==
    \/ \E p \in Procs : \E idx \in IdxArgs : calls[p] < CallCap /\ GetItem(p, idx)
    \/ \E w \in Procs : Fork(w)
    \/ \E p \in Procs : Teardown(p)

SpecTeardown == InitWorkers /\ [][NextTeardown]_vars

(***************************************************************************)
(* C11. Teardown closes handles: a process that has been torn down (which  *)
(* may happen between any two fetches) holds no open loader of its own.    *)
(***************************************************************************)
C11_TeardownClosesHandles ==
    \A p \in Procs :
        proc[p] = "torn_down" => { h \in ds[p].open_handles : h.owner = p } = {}

(***************************************************************************)
(* The dataset with chunk streaming off: fetches by index, in any order.   *)
(* shuffle, seed and chunk_size are read in chunk streaming mode only.     *)
(***************************************************************************)
InitNonChunked ==
    /\ chunk_streaming_using_keyframe = FALSE
    /\ episode_lengths \in LengthLists(MaxEpisodes, MaxLen)
    /\ episodes = [i \in 1..Len(episode_lengths) |-> i]
    /\ chunk_size = GopSize
    /\ shuffle = FALSE
    /\ seed = DefaultSeed
    /\ video_keys \in {{}, VideoKeyUniverse}
    /\ delta_indices \in DeltaChoices
    /\ ds = [p \in Procs |-> NoCursor]
    /\ proc = [p \in Procs |-> IF p = MainProc THEN "running" ELSE "absent"]
    /\ calls = [p \in Procs |-> 0]
    /\ last = [p \in Procs |-> NoCall]
    /\ recent = [p \in Procs |-> << >>]
    /\ born = [p \in Procs |-> NotBorn]
    /\ ctor = Untracked

NextNonChunked == \E idx \in 0..TotalRows(episode_lengths) : GetItem(MainProc, idx)

SpecNonChunked == InitNonChunked /\ [][NextNonChunked]_vars

(***************************************************************************)
(* C19. With chunk streaming off a fetch at index i leaves the cursor      *)
(* state, the chunk list and the reload flag as they are (the dataset      *)
(* object has none of them, before and after), and returns the row i.      *)
(***************************************************************************)
C19_NoCursorKept == ~chunk_streaming_using_keyframe => Main = NoCursor

C19_ReturnsRow ==
    (~chunk_streaming_using_keyframe /\ last[MainProc].row # None) =>
        /\ last[MainProc].row = last[MainProc].index_used
        /\ last[MainProc].chunk = None
        /\ ~last[MainProc].seeded
        /\ ~last[MainProc].moved
        /\ last[MainProc].reloads = 0

C19_NonChunkedFetch ==
    /\ [](C19_NoCursorKept /\ C19_ReturnsRow)
    /\ [][~chunk_streaming_using_keyframe => ds' = ds]_vars

\* with chunk streaming off, a row in the middle of the second episode fetched right after
\* the last row
C19_Witness ==
    /\ ~chunk_streaming_using_keyframe
    /\ Len(recent[MainProc]) = 2
    /\ recent[MainProc][1] = NumRows - 1
    /\ recent[MainProc][2] = last[MainProc].row
    /\ last[MainProc].ep = 2
    /\ last[MainProc].row > EpisodeFrom(episode_lengths, 2)
    /\ last[MainProc].row < NumRows - 1

TaskStride == 10000

TaskOf(e) == e \div TaskStride

RECURSIVE Sorted(_)
Sorted(s) ==
    IF s = << >> THEN << >>
    ELSE LET i == CHOOSE i \in 1..Len(s) : \A j \in 1..Len(s) : s[i] <= s[j]
         IN  <<s[i]>> \o Sorted(Remove(s, i))

\* the episodes of a task kept in the order of the table
EpisodesOfTask_unsorted(all_episodes, t) ==
    LET kept[i \in 0..Len(all_episodes)] ==
            IF i = 0 THEN << >>
            ELSE IF TaskOf(all_episodes[i]) = t
                 THEN Append(kept[i - 1], all_episodes[i])
                 ELSE kept[i - 1]
    IN  kept[Len(all_episodes)]

\* lines 152-157: epi_by_task[t], sorted
EpisodesOfTask(all_episodes, t) ==
    LET kept[i \in 0..Len(all_episodes)] ==
            IF i = 0 THEN << >>
            ELSE IF TaskOf(all_episodes[i]) = t
                 THEN Append(kept[i - 1], all_episodes[i])
                 ELSE kept[i - 1]
    IN  Sorted(kept[Len(all_episodes)])

\* s[i] of a list: a negative i counts from the end
PyItem(s, i) == IF i >= 0 THEN s[i + 1] ELSE s[Len(s) + i + 1]

\* a local index past the end taken as the last episode
Cherrypick_clamping(ids, request) ==
    LET wanted[j \in 0..Len(request)] ==
            IF j = 0 THEN << >>
            ELSE Append(wanted[j - 1],
                        IF request[j] < Len(ids) THEN PyItem(ids, request[j]) ELSE ids[Len(ids)])
    IN  wanted[Len(request)]

\* line 160: [ids[i] for i in episodes if i < len(ids)]
Cherrypick(ids, request) ==
    LET wanted[j \in 0..Len(request)] ==
            IF j = 0 THEN << >>
            ELSE IF request[j] < Len(ids)
                 THEN Append(wanted[j - 1], PyItem(ids, request[j]))
                 ELSE wanted[j - 1]
    IN  wanted[Len(request)]

\* ids[i] raises IndexError for i < -len(ids)
CanCherrypick(ids, request) ==
    \A j \in 1..Len(request) : request[j] >= -Len(ids)

RECURSIVE PickedOf(_, _, _, _)
PickedOf(all_episodes, tasks, truncate, request) ==
    IF tasks = {} THEN << >>
    ELSE LET t == CHOOSE t \in tasks : TRUE
             ids == EpisodesOfTask(all_episodes, t)
         IN  (IF truncate THEN Cherrypick(ids, request) ELSE ids)
                \o PickedOf(all_episodes, tasks \ {t}, truncate, request)

\* every task that has an episode in the table, requested or not
TasksPresent_any(all_episodes, tasks) ==
    { TaskOf(all_episodes[i]) : i \in 1..Len(all_episodes) }

\* the tasks of the request that have an episode in the table
TasksPresent(all_episodes, tasks) ==
    { t \in tasks : \E i \in 1..Len(all_episodes) : TaskOf(all_episodes[i]) = t }

\* line 162
SelectEpisodes(all_episodes, tasks, truncate, request) ==
    Sorted(PickedOf(all_episodes, TasksPresent(all_episodes, tasks), truncate, request))

\* lines 503-509: the keys of the metadata's episode table, in the dict's order
load_episodes(all_episodes, tasks) ==
    LET kept[i \in 0..Len(all_episodes)] ==
            IF i = 0 THEN << >>
            ELSE IF (all_episodes[i] \div TaskStride) \in tasks
                 THEN Append(kept[i - 1], all_episodes[i])
                 ELSE kept[i - 1]
    IN  Sorted(kept[Len(all_episodes)])

SelectionEpisodeIds == {0, 1, 10000}

\* the episode table in any on-disk order
EpisodeTables ==
    UNION { { s \in [1..Cardinality(S) -> S] : \A i, j \in DOMAIN s : i # j => s[i] # s[j] } :
            S \in (SUBSET SelectionEpisodeIds) \ {{}} }

TaskRequests == {{0}, {0, 1}}

\* the episodes argument: local indices per task, repeated, negative or too large ones included
EpisodeRequests == UNION { [1..n -> {-2, -1, 0, 1, 2}] : n \in 1..2 }

\* the length of each episode of the table
SelectionLengths ==
    { [e \in SelectionEpisodeIds |-> IF e = 1 THEN 2 ELSE 1],
      [e \in SelectionEpisodeIds |-> IF e = 1 THEN 1 ELSE 2] }

InitSelection ==
    /\ chunk_streaming_using_keyframe = TRUE
    /\ \E all_episodes \in EpisodeTables, tasks \in TaskRequests, truncate \in BOOLEAN,
          length \in SelectionLengths :
        \E request \in IF truncate THEN EpisodeRequests ELSE {<< >>} :
        \* line 160 raises IndexError for a local index below -len(ids): no dataset then
        LET can == truncate =>
                    \A t \in TasksPresent(all_episodes, tasks) :
                        CanCherrypick(EpisodesOfTask(all_episodes, t), request)
        IN  /\ episodes = IF can THEN SelectEpisodes(all_episodes, tasks, truncate, request)
                          ELSE << >>
            /\ episode_lengths = [i \in 1..Len(episodes) |-> length[episodes[i]]]
            /\ ctor = [ status |-> IF can THEN "constructed" ELSE "failed",
                        error |-> IF can THEN "none" ELSE "IndexError",
                        all_episodes |-> all_episodes, tasks |-> tasks,
                        truncate |-> truncate, request |-> request,
                        meta_episodes |-> load_episodes(all_episodes, tasks) ]
            /\ proc = [p \in Procs |-> IF p = MainProc /\ can THEN "running" ELSE "absent"]
    /\ chunk_size \in WorkerChunkSizes
    /\ shuffle \in BOOLEAN
    /\ seed = DefaultSeed
    /\ video_keys = VideoKeyUniverse
    /\ delta_indices \in DeltaChoices
    /\ shuffle \/ get_keyframe_chunk_indices(episode_lengths, chunk_size) # << >>
    /\ ds = [p \in Procs |-> Constructed(episode_lengths, chunk_size, shuffle)]
    /\ calls = [p \in Procs |-> 0]
    /\ last = [p \in Procs |-> NoCall]
    /\ recent = [p \in Procs |-> << >>]
    /\ born = [p \in Procs |-> NotBorn]

SpecSelection == InitSelection /\ [][Next]_vars

(***************************************************************************)
(* C18. The episode index and the chunk planner agree: the global row      *)
(* numbering is the concatenation of the selected episodes' lengths in     *)
(* selection order, the delta-window resolver finds an episode's row range *)
(* by the episode's position in the selection, and every chunk lies inside *)
(* the row range of exactly one selected episode.                          *)
(***************************************************************************)
C18_IndexAndPlannerAgree ==
    LET plan == Plan
        indexed == IndexedLengths(episodes, episode_lengths)
    IN  /\ indexed = episode_lengths
        /\ \A k \in 1..Len(episodes) :
                episode_data_index_pos(episodes, episodes[k]) + 1 = k
        /\ \A i \in 1..Len(plan) :
                Cardinality({ k \in 1..Len(indexed) :
                                /\ EpisodeFrom(indexed, k) <= plan[i][1]
                                /\ plan[i][2] <= EpisodeTo(indexed, k) }) = 1

(***************************************************************************)
(* C29. Reload target: every reload opens one loader per video key, for    *)
(* the episode of the row at the cursor's frame position, started at the   *)
(* local_start of the chunk at the cursor's chunk index, which is the      *)
(* chunk that holds the row (so the loader starts at the row's own local   *)
(* frame).                                                                 *)
(***************************************************************************)
C29_ReloadTarget ==
    last[MainProc].reloads > 0 =>
        LET l == last[MainProc]
            chunk == Main.chunks[l.chunk + 1]
        IN  /\ l.ep = EpisodeOfRow(episode_lengths, l.row)
            /\ chunk[1] <= l.row /\ l.row < chunk[2]
            /\ l.opened = { [key |-> k, owner |-> MainProc, ep |-> l.ep, start_idx |-> chunk[3]] :
                            k \in video_keys }
            /\ chunk[3] = l.row - EpisodeFrom(episode_lengths, l.ep)
            /\ Cardinality(l.opened) = Cardinality(video_keys)

\* a reload at a chunk that starts inside the second episode, with video keys
C29_Witness ==
    /\ last[MainProc].reloads > 0
    /\ video_keys # {}
    /\ last[MainProc].ep = 2
    /\ Main.chunks[last[MainProc].chunk + 1][3] > 0
    /\ \E h \in last[MainProc].opened : h.start_idx = Main.chunks[last[MainProc].chunk + 1][3]

(***************************************************************************)
(* C30. No decoder runs past its episode: between two reloads every loader *)
(* is advanced at most (global_end - global_start) times from the chunk's  *)
(* local_start, it never stands past its episode's frame count, and the    *)
(* loaders the next fetch reads from (after its move and its reload) have  *)
(* a frame left to yield.                                                  *)
(***************************************************************************)
C30_NextFrameAvailable ==
    Main.current_streaming_chunk_idx # None =>
        LET d2 == Moved(Main)
            ep_idx == EpisodeOfRow(episode_lengths, d2.current_streaming_frame_idx)
        IN  /\ d2.current_streaming_frame_idx \in 0..(NumRows - 1)
            /\ CanDecode(Reloaded(d2, MainProc, ep_idx).d.obs_loaders)

C30_DecoderInBounds ==
    /\ C30_NextFrameAvailable
    /\ calls[MainProc] >= 1 =>
        LET chunk == Main.chunks[last[MainProc].chunk + 1]
        IN  \A k \in DOMAIN Main.obs_loaders :
                LET loader == Main.obs_loaders[k]
                IN  /\ loader.start_idx = chunk[3]
                    /\ loader.pos >= 1
                    /\ loader.pos <= chunk[2] - chunk[1]
                    /\ loader.start_idx + loader.pos <= episode_lengths[loader.ep]

\* a loader that has delivered the last frame of its episode, after the whole final chunk
C30_Witness ==
    /\ video_keys # {}
    /\ calls[MainProc] >= 2
    /\ \A k \in DOMAIN Main.obs_loaders :
        /\ Main.obs_loaders[k].start_idx + Main.obs_loaders[k].pos
                = episode_lengths[Main.obs_loaders[k].ep]
        /\ Main.obs_loaders[k].pos = chunk_size
        /\ Main.obs_loaders[k].pos >= 2

(***************************************************************************)
(* C25. Selection does not depend on the order of the episode table: the   *)
(* episodes of each task are sorted ascending before the local indices of  *)
(* the request are applied, so every reordering of the table, under the    *)
(* same tasks and the same request, selects the same list of episodes.     *)
(***************************************************************************)
TableIds(table) == { table[i] : i \in 1..Len(table) }

C25_OrderIndependent ==
    /\ \A t \in ctor.tasks :
        LET ids == EpisodesOfTask(ctor.all_episodes, t)
        IN  \A i, j \in 1..Len(ids) : i < j => ids[i] < ids[j]
    /\ \A other \in EpisodeTables :
        TableIds(other) = TableIds(ctor.all_episodes) =>
            LET can == ctor.truncate =>
                        \A t \in TasksPresent(other, ctor.tasks) :
                            CanCherrypick(EpisodesOfTask(other, t), ctor.request)
            IN  IF ctor.status = "constructed"
                THEN can /\ SelectEpisodes(other, ctor.tasks, ctor.truncate, ctor.request)
                                = episodes
                ELSE ~can

\* a table listed in descending order, cut down to the first episode of each task
C25_Witness ==
    /\ ctor.all_episodes = <<10000, 1, 0>>
    /\ ctor.tasks = {0, 1}
    /\ ctor.truncate
    /\ ctor.request = <<0>>
    /\ episodes = <<0, 10000>>
    /\ calls[MainProc] >= 1

(***************************************************************************)
(* C26. Task partition: every selected episode, and every episode of the   *)
(* metadata's episode table, has episode_index // 10000 among the          *)
(* requested tasks; when no episodes argument is given, every episode of   *)
(* the table with a requested task id is selected.                         *)
(***************************************************************************)
C26_TaskPartition ==
    /\ \A i \in 1..Len(episodes) : (episodes[i] \div 10000) \in ctor.tasks
    /\ \A i \in 1..Len(ctor.meta_episodes) : (ctor.meta_episodes[i] \div 10000) \in ctor.tasks
    /\ \A e \in TableIds(ctor.all_episodes) :
        (e \div 10000) \in ctor.tasks => e \in TableIds(ctor.meta_episodes)
    /\ ~ctor.truncate =>
        \A e \in TableIds(ctor.all_episodes) :
            (e \div 10000) \in ctor.tasks => e \in TableIds(episodes)

\* one of two tasks requested, no episodes argument: the other task's episode is left out
C26_Witness ==
    /\ TableIds(ctor.all_episodes) = {0, 1, 10000}
    /\ ctor.tasks = {0}
    /\ ~ctor.truncate
    /\ episodes = <<0, 1>>
    /\ ctor.meta_episodes = <<0, 1>>
    /\ calls[MainProc] >= 1

(***************************************************************************)
(* __init__ as one step, lines 106-215, with the metadata object it builds *)
(* (lines 438-475).  The call is followed through a record c: the          *)
(* arguments, the files under root (fs), the files a pull from the         *)
(* repository delivers (remote), the file-system and network operations    *)
(* performed so far (io), and how the call ended (status, error).          *)
(***************************************************************************)
Modalities == {"rgb", "depth", "seg_instance_id"}

\* ROBOT_CAMERA_NAMES["R1Pro"], as the docstring of lines 90-91 lists it
CameraNames == {"head", "left_wrist", "right_wrist"}

\* info["features"]: the video features the dataset on disk declares
InfoFeatures ==
    { [name |-> "observation.images.rgb.head", modality |-> "rgb", camera |-> "head"],
      [name |-> "observation.images.depth.head", modality |-> "depth", camera |-> "head"],
      [name |-> "observation.images.seg_instance_id.head", modality |-> "seg_instance_id",
       camera |-> "head"] }

\* meta/episodes.jsonl of the dataset, in the order of the file, and the episodes' lengths
ConstructTable == <<1, 10000, 0>>

ConstructLengths == [e \in {0, 1, 10000} |-> IF e = 0 THEN 2 ELSE 1]

\* the files of the dataset: the metadata, and per episode the tabular shard, the
\* metainfo file and the video files
MetaFile == <<"meta", None>>

EpisodeFiles(e) == { <<"data", e>>, <<"metainfo", e>>, <<"video", e>> }

RepoFiles == {MetaFile} \cup UNION { EpisodeFiles(ConstructTable[i]) : i \in 1..Len(ConstructTable) }

NoError == [type |-> "none", about |-> "none"]

Log(c, op) == [c EXCEPT !.io = Append(@, op)]

Raised(c, type, about) == [c EXCEPT !.status = "failed", !.error = [type |-> type, about |-> about]]

\* an except clause entered: the error is handled
Caught(c) == [c EXCEPT !.status = "running", !.error = NoError]

\* lines 106-122
Prepared(c) == Log([c EXCEPT !.status = "running"], "mkdir root")

\* the depth modality accepted with any backend
ModalitiesChecked_any_backend(c) ==
    IF c.status = "failed" THEN c
    ELSE IF "seg_instance_id" \in c.modalities /\ ~chunk_streaming_using_keyframe
         THEN Raised(c, "AssertionError", "chunk_streaming_using_keyframe")
         ELSE c

\* lines 126-134
ModalitiesChecked(c) ==
    IF c.status = "failed" THEN c
    ELSE IF "seg_instance_id" \in c.modalities /\ ~chunk_streaming_using_keyframe
         THEN Raised(c, "AssertionError", "chunk_streaming_using_keyframe")
         ELSE IF "depth" \in c.modalities /\ c.video_backend # "pyav"
              THEN Raised(c, "AssertionError", "video_backend")
              ELSE c

\* the camera names taken as they come
MetaValidated_cameras_unchecked(c) ==
    IF c.status = "failed" THEN c
    ELSE IF ~(c.modalities \subseteq Modalities)
         THEN Raised(c, "AssertionError", "modalities")
         ELSE c

\* lines 450-458
MetaValidated(c) ==
    IF c.status = "failed" THEN c
    ELSE IF ~(c.modalities \subseteq Modalities)
         THEN Raised(c, "AssertionError", "modalities")
         ELSE IF ~(c.cameras \subseteq CameraNames)
              THEN Raised(c, "AssertionError", "cameras")
              ELSE c

\* lines 477-494: the metadata files read from root
load_metadata(c) ==
    LET k == Log(c, "load_metadata")
    IN  IF MetaFile \in k.fs THEN k ELSE Raised(k, "FileNotFoundError", "meta")

\* lines 470-474: the metadata pulled from the repository
pull_meta(c) ==
    LET k == Log(Log(Log(c, "get_safe_version"), "mkdir meta"), "snapshot_download meta")
    IN  [k EXCEPT !.fs = @ \cup (k.remote \cap {MetaFile})]

\* lines 465-475
MetaLoaded(c) ==
    IF c.status = "failed" THEN c
    ELSE LET tried == IF c.force_cache_sync
                      THEN Raised(c, "FileNotFoundError", "force_cache_sync")
                      ELSE load_metadata(c)
         IN  IF tried.status = "failed"
             THEN load_metadata(pull_meta(Caught(tried)))
             ELSE tried

\* lines 150-162, and the video keys of lines 545-557
Selected(c) ==
    IF c.status = "failed" THEN c
    ELSE LET k == Log(c, "load_jsonlines episodes")
         IN  [k EXCEPT !.episodes = SelectEpisodes(ConstructTable, k.tasks, FALSE, << >>),
                       !.video_keys = { f.name : f \in { g \in InfoFeatures :
                                            /\ g.camera \in k.cameras
                                            /\ g.modality \in k.modalities } }]

LengthsOf(eps) == [i \in 1..Len(eps) |-> ConstructLengths[eps[i]]]

\* lines 164-179: without shuffle the first chunk of the plan is read
StreamingSetUp(c) ==
    IF c.status = "failed" THEN c
    ELSE IF /\ chunk_streaming_using_keyframe
            /\ ~shuffle
            /\ get_keyframe_chunk_indices(LengthsOf(c.episodes), chunk_size) = << >>
         THEN Raised(c, "IndexError", "chunks")
         ELSE c

\* lines 217-235
get_episodes_file_paths(c) ==
    { <<"data", c.episodes[i]>> : i \in 1..Len(c.episodes) }
        \cup { <<"metainfo", c.episodes[i]>> : i \in 1..Len(c.episodes) }
        \cup (IF c.video_keys # {}
              THEN { <<"video", c.episodes[i]>> : i \in 1..Len(c.episodes) }
              ELSE {})

\* the table built from the shards that are there
load_hf_dataset_skipping(c) == Log(c, "load_dataset")

\* lines 287-297: load_dataset over the shard of every selected episode
load_hf_dataset(c) ==
    LET k == Log(c, "load_dataset")
    IN  IF { <<"data", k.episodes[i]>> : i \in 1..Len(k.episodes) } \subseteq k.fs
        THEN k
        ELSE Raised(k, "FileNotFoundError", "data file")

\* the pull made a second time
download_episodes_twice(c) ==
    LET k == Log(Log(c, "snapshot_download episodes"), "snapshot_download episodes")
    IN  [k EXCEPT !.fs = @ \cup (k.remote \ {MetaFile})]

\* lines 237-285: the episode files pulled from the repository
download_episodes(c) ==
    LET k == Log(c, "snapshot_download episodes")
    IN  [k EXCEPT !.fs = @ \cup (k.remote \ {MetaFile})]

\* lines 189-201
Loaded(c) ==
    IF c.status = "failed" THEN c
    ELSE LET tried == IF c.force_cache_sync
                      THEN Raised(c, "FileNotFoundError", "force_cache_sync")
                      ELSE LET k == Log(c, "is_file")
                           IN  IF get_episodes_file_paths(k) \subseteq k.fs
                               THEN load_hf_dataset(k)
                               ELSE Raised(k, "AssertionError", "Missing file")
         IN  IF tried.status = "failed"
             THEN IF c.local_only
                  THEN tried
                  ELSE load_hf_dataset(download_episodes(Log(Caught(tried), "get_safe_version")))
             ELSE tried

\* lines 106-215
Constructor(c) ==
    LET done == Loaded(StreamingSetUp(Selected(MetaLoaded(MetaValidated(
                    ModalitiesChecked(Prepared(c)))))))
    IN  IF done.status = "failed" THEN done ELSE [done EXCEPT !.status = "constructed"]

\* BehaviorLeRobotDataset(...): the dataset object exists once __init__ has returned
Construct ==
    /\ ctor.status = "new"
    /\ LET c == Constructor(ctor)
       IN  /\ ctor' = c
           /\ IF c.status = "constructed"
              THEN /\ episodes' = c.episodes
                   /\ episode_lengths' = LengthsOf(c.episodes)
                   /\ video_keys' = c.video_keys
                   /\ ds' = [p \in Procs |->
                                IF chunk_streaming_using_keyframe
                                THEN Constructed(LengthsOf(c.episodes), chunk_size, shuffle)
                                ELSE NoCursor]
                   /\ proc' = [proc EXCEPT ![MainProc] = "running"]
              ELSE UNCHANGED <<episodes, episode_lengths, video_keys, ds, proc>>
    /\ UNCHANGED <<chunk_streaming_using_keyframe, chunk_size, shuffle, seed, delta_indices,
                   calls, last, recent, born>>

\* the modalities, cameras and video_backend arguments, valid and not (None stands for
\* the full list of lines 127 and 136, and for the default backend of line 113)
ModalityArgs ==
    { {"rgb"}, {"rgb", "depth"}, {"rgb", "seg_instance_id"}, Modalities, {"rgb", "normal"} }

CameraArgs == { CameraNames, {"head", "rear"} }

BackendArgs == {"pyav", "torchcodec"}

\* what root holds before the call: everything, nothing, or everything but one file
LocalFiles == {RepoFiles, {}} \cup { RepoFiles \ {f} : f \in RepoFiles }

\* what a pull delivers
RemoteFiles == { RepoFiles, RepoFiles \ {<<"data", 1>>}, RepoFiles \ {MetaFile}, {} }

InitConstruct ==
    /\ \E modalities \in ModalityArgs, cameras \in CameraArgs, video_backend \in BackendArgs,
          local_only \in BOOLEAN, force_cache_sync \in BOOLEAN,
          local \in LocalFiles, remote \in RemoteFiles :
        ctor = [ status |-> "new", error |-> NoError, io |-> << >>,
                 modalities |-> modalities, cameras |-> cameras,
                 video_backend |-> video_backend, tasks |-> {0},
                 local_only |-> local_only, force_cache_sync |-> force_cache_sync,
                 local |-> local, fs |-> local, remote |-> remote,
                 episodes |-> << >>, video_keys |-> {} ]
    /\ chunk_streaming_using_keyframe \in BOOLEAN
    /\ chunk_size = GopSize
    /\ shuffle = FALSE
    /\ seed = DefaultSeed
    /\ delta_indices = NoDelta
    /\ episodes = << >>
    /\ episode_lengths = << >>
    /\ video_keys = {}
    /\ ds = [p \in Procs |-> NoCursor]
    /\ proc = [p \in Procs |-> "absent"]
    /\ calls = [p \in Procs |-> 0]
    /\ last = [p \in Procs |-> NoCall]
    /\ recent = [p \in Procs |-> << >>]
    /\ born = [p \in Procs |-> NotBorn]

NextConstruct ==
    \/ Construct
    \/ \E idx \in IdxArgs : GetItem(MainProc, idx)

SpecConstruct == InitConstruct /\ [][NextConstruct]_vars

\* how often an operation was performed
Count(io, op) == Cardinality({ i \in 1..Len(io) : io[i] = op })

Downloads(io) == Count(io, "snapshot_download meta") + Count(io, "snapshot_download episodes")

ConfigErrors ==
    { [type |-> "AssertionError", about |-> a] :
        a \in {"chunk_streaming_using_keyframe", "video_backend", "modalities", "cameras"} }

(***************************************************************************)
(* C21. The command "seg_instance_id without chunk streaming" is refused   *)
(* with a configuration error before the constructor has performed any     *)
(* file-system or network operation.                                       *)
(***************************************************************************)
C21_FailsBeforeAnyIO ==
    (/\ ctor.status \in {"constructed", "failed"}
     /\ "seg_instance_id" \in ctor.modalities
     /\ ~chunk_streaming_using_keyframe)
        => /\ ctor.status = "failed"
           /\ ctor.error = [type |-> "AssertionError", about |-> "chunk_streaming_using_keyframe"]
           /\ ctor.io = << >>

C23_LocalOnlyNeverDownloads ==
    (ctor.status \in {"constructed", "failed"} /\ ctor.local_only)
        => /\ Downloads(ctor.io) = 0
           /\ ctor.fs = ctor.local
           /\ MetaFile \notin ctor.local => ctor.status = "failed"

(***************************************************************************)
(* C24. A dataset is never built while the tabular shard of a selected     *)
(* episode is absent: every shard is under root when __init__ returns, and *)
(* a construction that reaches the data with a shard it cannot get ends in *)
(* a missing-file error.                                                   *)
(***************************************************************************)
SelectedShards == { <<"data", ctor.episodes[i]>> : i \in 1..Len(ctor.episodes) }

C24_NoShardSkipped ==
    /\ ctor.status = "constructed" =>
        /\ ctor.episodes = <<0, 1>>
        /\ episodes = ctor.episodes
        /\ SelectedShards \subseteq ctor.fs
    /\ (/\ ctor.status = "failed"
        /\ Count(ctor.io, "load_jsonlines episodes") = 1
        /\ ~(SelectedShards \subseteq ctor.fs))
            => ctor.error \in { [type |-> "AssertionError", about |-> "Missing file"],
                                [type |-> "FileNotFoundError", about |-> "data file"],
                                [type |-> "FileNotFoundError", about |-> "force_cache_sync"] }
    /\ \A e \in {0, 1} :
        (ctor.status \in {"constructed", "failed"}
            /\ <<"data", e>> \notin ctor.local /\ <<"data", e>> \notin ctor.remote)
                => ctor.status = "failed"

\* a shard missing under root and in the repository: the pull is made, the load fails
C24_Witness ==
    /\ ctor.status = "failed"
    /\ ctor.error = [type |-> "FileNotFoundError", about |-> "data file"]
    /\ <<"data", 1>> \notin ctor.fs
    /\ <<"data", 0>> \in ctor.fs
    /\ Count(ctor.io, "snapshot_download episodes") = 1
    /\ proc[MainProc] = "absent"

(***************************************************************************)
(* C27. The depth modality with a backend other than pyav is refused by    *)
(* __init__: the call ends in a configuration error, no dataset object     *)
(* exists, and no fetch is ever made on it.                                *)
(***************************************************************************)
C27_DepthNeedsPyav ==
    ("depth" \in ctor.modalities /\ ctor.video_backend # "pyav")
        => /\ ctor.status \in {"new", "failed"}
           /\ ctor.status = "failed" =>
                /\ ctor.error \in ConfigErrors
                /\ "seg_instance_id" \notin ctor.modalities =>
                        ctor.error.about = "video_backend"
           /\ proc[MainProc] = "absent"
           /\ calls[MainProc] = 0
           /\ ~ENABLED (\E idx \in IdxArgs : GetItem(MainProc, idx))

C27_Witness ==
    /\ ctor.status = "failed"
    /\ ctor.modalities = {"rgb", "depth"}
    /\ ctor.video_backend = "torchcodec"
    /\ ctor.error = [type |-> "AssertionError", about |-> "video_backend"]
    /\ proc[MainProc] = "absent"

(***************************************************************************)
(* C28. Modalities outside {rgb, depth, seg_instance_id} and cameras       *)
(* outside the declared camera names are refused with a configuration      *)
(* error before any metadata is loaded or downloaded.                      *)
(***************************************************************************)
C28_ValidatedBeforeMetadata ==
    (/\ ctor.status \in {"constructed", "failed"}
     /\ ~(ctor.modalities \subseteq Modalities /\ ctor.cameras \subseteq CameraNames))
        => /\ ctor.status = "failed"
           /\ ctor.error \in ConfigErrors
           /\ Count(ctor.io, "load_metadata") = 0
           /\ Downloads(ctor.io) = 0
           /\ Count(ctor.io, "get_safe_version") = 0
           /\ ctor.fs = ctor.local

\* an undeclared camera, everything else in order and the metadata missing under root
C28_Witness ==
    /\ ctor.status = "failed"
    /\ ctor.error = [type |-> "AssertionError", about |-> "cameras"]
    /\ ctor.modalities = {"rgb"}
    /\ ctor.cameras = {"head", "rear"}
    /\ MetaFile \notin ctor.local
    /\ MetaFile \in ctor.remote
    /\ ctor.io = <<"mkdir root">>

(***************************************************************************)
(* C32. In chunk streaming mode the idx argument is ignored: a fetch made  *)
(* with one idx leads to the very state (returned row, cursor, loaders)    *)
(* that the fetch with any other idx leads to, so call sequences that      *)
(* differ only in idx return the same rows through the same cursor states. *)
(***************************************************************************)
IdxRange == (-1)..NumRows

C32_AnyIdxSameStep == \A idx \in IdxRange : GetItem(MainProc, idx)

C32_IdxIgnored ==
    /\ [](calls[MainProc] >= 1 => last[MainProc].index_used = None)
    /\ [][C32_AnyIdxSameStep]_vars

\* two fetches made, the second inside the second episode: its row is neither idx passed
C32_Witness ==
    /\ calls[MainProc] >= 2
    /\ last[MainProc].ep = 2
    /\ last[MainProc].row \notin IdxArgs
    /\ last[MainProc].index_used = None

(***************************************************************************)
(* C33. Without shuffle the cursor is active from construction at chunk 0  *)
(* and that chunk's first row, no call seeds it, the chunk list stays the  *)
(* planner's in every process, and the rows a process returns are the rows *)
(* in order from where its copy started, whatever its worker id and the    *)
(* seed: processes that started from the same state return the same rows.  *)
(***************************************************************************)
\* the number of rows the dataset copy of p had handed out when p started
RowsBefore(p) == IF p = MainProc THEN 0 ELSE born[p].parent_calls

RECURSIVE CursorAfter(_, _)
CursorAfter(d, n) == IF n = 0 THEN d ELSE CursorAfter(FrameAdvanced(Moved(d)), n - 1)

\* the (chunk index, row) the k-th call returns on a cursor seeded with this draw
PairAt(draw, k) ==
    LET seeded == Seeded(Constructed(episode_lengths, chunk_size, shuffle), MainProc, draw)
        d == Moved(CursorAfter(seeded, k - 1))
    IN  <<d.current_streaming_chunk_idx, d.current_streaming_frame_idx>>

OtherSeeds == 0..3

OtherWorkerIds == 0..2

C34_SumOfSeedAndWorker ==
    \A p \in Procs :
        (shuffle /\ FromConstruction(p) /\ calls[p] >= 1) =>
            \A s \in OtherSeeds, w \in OtherWorkerIds :
                s + w = seed + WorkerId(p) =>
                    /\ rng_of(s, w, Len(Plan)) # {}
                    /\ \A draw \in rng_of(s, w, Len(Plan)) :
                        /\ ds[p].chunks = Permuted(Plan, draw.perm)
                        /\ PairAt(draw, calls[p]) = <<last[p].chunk, last[p].row>>

\* seed 1 in the main process (seed 0 with worker id 1 has the same sum), past a chunk move
C34_Witness ==
    /\ shuffle /\ seed = 1
    /\ Len(Plan) >= 2
    /\ Main.chunks # Plan
    /\ calls[MainProc] >= 2
    /\ last[MainProc].moved
    /\ rng_of(0, 1, Len(Plan)) = rng_of(seed, WorkerId(MainProc), Len(Plan))

(***************************************************************************)
(* C35. Once the cursor is active its chunk index lies in [0, number of    *)
(* chunks), and the chunk list is a permutation of the planner's output:   *)
(* the same triples, each as often as the planner emitted it, unmodified.  *)
(***************************************************************************)
\* how often a chunk occurs in a list
Occurrences(chunks, c) == Cardinality({ i \in 1..Len(chunks) : chunks[i] = c })

C35_ActiveCursorInRange ==
    LET plan == Plan
    IN  /\ Len(Main.chunks) = Len(plan)
        /\ \A i \in 1..Len(plan) :
            /\ Occurrences(Main.chunks, plan[i]) = 1
            /\ Occurrences(plan, Main.chunks[i]) = 1
        /\ Main.current_streaming_chunk_idx # None =>
            /\ Main.current_streaming_chunk_idx \in 0..(Len(plan) - 1)
            /\ Main.current_streaming_frame_idx \in 0..NumRows

\* a shuffled list of three chunks or more in an order of its own, on its last chunk
C35_Witness ==
    /\ shuffle
    /\ Len(Main.chunks) >= 3
    /\ Main.chunks # Plan
    /\ calls[MainProc] >= 2
    /\ Main.current_streaming_chunk_idx = Len(Main.chunks) - 1

(***************************************************************************)
(* C36. The planner emits exactly ceil(L / chunk_size) chunks for an       *)
(* episode of length L and never an empty chunk: a length that is a        *)
(* multiple of chunk_size gets no trailing empty chunk, and an episode of  *)
(* length 0 gets no chunk and leaves the global offset where it was.       *)
(***************************************************************************)
CeilDiv(a, b) == (a + b - 1) \div b

C36_ChunkCount ==
    LET plan == Plan
    IN  /\ \A i \in 1..Len(plan) : plan[i][1] < plan[i][2]
        /\ \A k \in 1..Len(episode_lengths) :
            LET mine == { i \in 1..Len(plan) :
                            /\ EpisodeFrom(episode_lengths, k) <= plan[i][1]
                            /\ plan[i][2] <= EpisodeTo(episode_lengths, k) }
            IN  /\ Cardinality(mine) = CeilDiv(episode_lengths[k], chunk_size)
                /\ Len(EpisodeChunks(episode_lengths[k], EpisodeFrom(episode_lengths, k),
                                     chunk_size)) = CeilDiv(episode_lengths[k], chunk_size)
                /\ episode_lengths[k] = 0 =>
                    EpisodeTo(episode_lengths, k) = EpisodeFrom(episode_lengths, k)
        /\ Len(plan) > 0 => plan[Len(plan)][2] = NumRows

\* an empty episode followed by one whose length is twice the chunk size, a fetch made
C36_Witness ==
    /\ chunk_size = 1
    /\ episode_lengths = <<0, 2>>
    /\ Len(Plan) = 2
    /\ Plan[1] = <<0, 1, 0>>
    /\ calls[MainProc] >= 1

(***************************************************************************)
(* C37. Whatever the episodes argument, the selected episode list is       *)
(* strictly ascending by id, so it holds no episode twice and the position *)
(* map has one position per selected episode.                              *)
(***************************************************************************)
C37_StrictlyAscending ==
    /\ \A i, j \in 1..Len(episodes) : i < j => episodes[i] < episodes[j]
    /\ Cardinality(TableIds(episodes)) = Len(episodes)
    /\ Len(IndexedLengths(episodes, episode_lengths)) = Len(episodes)

(***************************************************************************)
(* C38. Local indices, as the code treats them: for a task with n          *)
(* episodes an index i >= n selects nothing and raises nothing, an index   *)
(* 0 <= i < n selects the i-th smallest id, an index -n <= i < 0 selects   *)
(* the (n + i)-th smallest (it counts from the end), each as often as it   *)
(* is listed, and an index i < -n makes the construction fail with an      *)
(* IndexError.                                                             *)
(***************************************************************************)
\* how often the list holds the id
CountOf(list, e) == Cardinality({ i \in 1..Len(list) : list[i] = e })

\* how often the request lists the local index
Requested(i) == Cardinality({ j \in 1..Len(ctor.request) : ctor.request[j] = i })

RequestedTasks == TasksPresent(ctor.all_episodes, ctor.tasks)

\* C38 as claimed: no index raises, and only an index i in [0, n) selects, the i-th smallest
C38_EveryIndexSelectsIth ==
    /\ ctor.status = "constructed"
    /\ ctor.truncate =>
        \A t \in RequestedTasks :
            LET ids == load_episodes(ctor.all_episodes, {t})
            IN  \A k \in 1..Len(ids) : CountOf(episodes, ids[k]) = Requested(k - 1)

C38_LocalIndices ==
    ctor.truncate =>
        /\ ctor.status = "failed" <=>
            \E t \in RequestedTasks : \E j \in 1..Len(ctor.request) :
                ctor.request[j] < -Len(load_episodes(ctor.all_episodes, {t}))
        /\ ctor.status = "failed" => (ctor.error = "IndexError" /\ proc[MainProc] = "absent")
        /\ ctor.status = "constructed" =>
            \A t \in RequestedTasks :
                LET ids == load_episodes(ctor.all_episodes, {t})
                    n == Len(ids)
                IN  \A k \in 1..n :
                        CountOf(episodes, ids[k]) = Requested(k - 1) + Requested(k - 1 - n)

\* two episodes in the task: index 2 selects nothing, index -1 the larger id; a row is read
C38_Witness ==
    /\ ctor.status = "constructed"
    /\ ctor.truncate
    /\ ctor.request = <<2, -1>>
    /\ TableIds(ctor.all_episodes) = {0, 1}
    /\ ctor.tasks = {0}
    /\ episodes = <<1>>
    /\ calls[MainProc] >= 1

\* a task of one episode asked for index -2: no dataset
C38_WitnessRaises ==
    /\ ctor.status = "failed"
    /\ ctor.request = <<0, -2>>
    /\ TableIds(ctor.all_episodes) = {0, 10000}

(***************************************************************************)
(* __getitem__ calls that raise.  An exception leaves __getitem__ at the   *)
(* statement that raised it: what the statements before it assigned stays  *)
(* assigned, and line 375 is not reached.  The call may raise when it      *)
(* reads the row (319), while it reloads the pool (322-352, after the      *)
(* loaders of some keys were opened), when a loader is asked for its frame *)
(* (365, after the loaders of some keys yielded theirs) and in the         *)
(* statements after the decoding (367-374: image_transforms, task lookup). *)
(***************************************************************************)
RaisePoints == {"row", "reload", "decode", "transform"}

\* the loaders of the keys in done advanced by one frame
AdvancedOn(d, done) ==
    [d EXCEPT !.obs_loaders = [k \in DOMAIN d.obs_loaders |->
                                  IF k \in done
                                  THEN [d.obs_loaders[k] EXCEPT !.pos = @ + 1]
                                  ELSE d.obs_loaders[k]]]

\* a loader whose iterator has ended: every later next() on it raises
Ended(d, k) ==
    [d EXCEPT !.obs_loaders[k].pos =
                Max(@, episode_lengths[d.obs_loaders[k].ep] - d.obs_loaders[k].start_idx)]

\* lines 322-352 left while the loaders are opened: the old pool is closed, the keys in
\* done have their loader, the reload flag is still set
ReloadRaised(d, p, ep_idx, done) ==
    LET fresh == OpenAll(d, p, ep_idx)
        part == [k \in done |-> fresh[k]]
    IN  [d EXCEPT !.open_handles = CloseAll(d.open_handles, d.obs_loaders) \cup HandlesOf(part),
                  !.obs_loaders = part,
                  !.current_streaming_episode_idx = ep_idx]

\* lines 302-377 when the call raises at the given point
StreamingGetItemRaises(p, idx, at) ==
    \E draw \in IF ds[p].current_streaming_chunk_idx = None
                THEN rng_of(seed, WorkerId(p), Len(ds[p].chunks))
                ELSE {[perm |-> << >>, start |-> 0]} :
    LET d0 == ds[p]
        d1 == Seeded(d0, p, draw)
        d2 == Moved(d1)
        row == StreamRow(d2, idx)
        ep_idx == EpisodeOfRow(episode_lengths, row)
        r == Reloaded(d2, p, ep_idx)
        d3 == r.d
    IN  /\ row \in 0..(TotalRows(episode_lengths) - 1)
        /\ at \in RaisePoints
        /\ at # "row" => video_keys # {}
        /\ at = "reload" => d2.should_obs_loaders_reload
        /\ \E failing \in IF at \in {"reload", "decode"} THEN video_keys ELSE {None} :
           \E done \in IF at \in {"reload", "decode"}
                       THEN SUBSET (video_keys \ {failing}) ELSE {video_keys} :
           \E ended \in IF at = "decode" THEN BOOLEAN ELSE {FALSE} :
            /\ at \in {"decode", "transform"} =>
                    CanDecode([k \in done |-> d3.obs_loaders[k]])
            /\ ds' = [ds EXCEPT ![p] =
                        IF at = "row" THEN d2
                        ELSE IF at = "reload" THEN ReloadRaised(d2, p, ep_idx, done)
                        ELSE IF at = "decode"
                             THEN IF ended THEN Ended(AdvancedOn(d3, done), failing)
                                  ELSE AdvancedOn(d3, done)
                             ELSE AdvancedOn(d3, done)]
            /\ last' = [last EXCEPT ![p] =
                        [NoCall EXCEPT !.row = row, !.ep = ep_idx,
                                       !.chunk = d2.current_streaming_chunk_idx,
                                       !.foreign = last[p].foreign,
                                       !.raised = at]]
            /\ UNCHANGED <<proc, calls, recent>>

\* __getitem__(idx) raising, in chunk streaming mode
GetItemRaises(p, idx) ==
    /\ proc[p] = "running"
    /\ chunk_streaming_using_keyframe
    /\ \E at \in RaisePoints : StreamingGetItemRaises(p, idx, at)
    /\ UNCHANGED <<config, born>>

InitFaults ==
    InitWith(UNION { [1..n -> 1..WorkerMaxLen] : n \in WorkerEpisodeCounts }, WorkerChunkSizes,
             WorkerSeeds, {VideoKeyUniverse}, {NoDelta})

NextFaults ==
    \/ \E idx \in IdxArgs : GetItem(MainProc, idx)
    \/ \E idx \in IdxArgs : GetItemRaises(MainProc, idx)

SpecFaults == InitFaults /\ [][NextFaults]_vars

(***************************************************************************)
(* C31. Tabular/video alignment: for every record a streaming fetch        *)
(* returns and every video key, the frame comes from the row's own episode *)
(* at local index row - episode start, and the key's loader, opened at the *)
(* chunk's local_start, has by then been advanced once per row of the      *)
(* chunk up to and including this one.                                     *)
(***************************************************************************)
C31_FramesAligned ==
    (calls[MainProc] >= 1 /\ last[MainProc].raised = "none") =>
        LET l == last[MainProc]
            chunk == Main.chunks[l.chunk + 1]
        IN  /\ DOMAIN l.frames = video_keys
            /\ \A k \in video_keys :
                /\ l.frames[k] = [ep |-> l.ep,
                                  local |-> l.row - EpisodeFrom(episode_lengths, l.ep)]
                /\ Main.obs_loaders[k].start_idx = chunk[3]
                /\ Main.obs_loaders[k].pos = l.row - chunk[1] + 1

(***************************************************************************)
(* C39. A call that raises while it reads the row, reloads the pool or     *)
(* decodes a frame leaves the frame position where it was, so the next     *)
(* call addresses the same row, and the call that then returns that row    *)
(* returns, for every video key, the frame at the row's local index.       *)
(***************************************************************************)
C39_RaisedCallStep ==
    /\ last'[MainProc].raised # "none" =>
        /\ calls' = calls
        /\ ds'[MainProc].current_streaming_frame_idx = last'[MainProc].row
        /\ Moved(ds'[MainProc]).current_streaming_frame_idx = last'[MainProc].row
    /\ (last[MainProc].raised \in {"row", "reload", "decode"}
            /\ last'[MainProc].raised = "none") =>
        /\ last'[MainProc].row = last[MainProc].row
        /\ \A k \in video_keys :
            last'[MainProc].frames[k] =
                [ep |-> last'[MainProc].ep,
                 local |-> last'[MainProc].row
                            - EpisodeFrom(episode_lengths, last'[MainProc].ep)]

C39_RaisedCallKeepsAlignment == [][C39_RaisedCallStep]_vars

============================================================================
